---- MODULE Spec2Model ----
(***************************************************************************)
(* Word-level model of mm.c, the segregated free list allocator (best fit  *)
(* within a class, immediate coalescing, no-split realloc), on a 32-bit    *)
(* build: a word, a pointer and a size_t are four bytes.                   *)
(*                                                                         *)
(* The heap is a map from word addresses to the 32-bit values stored       *)
(* there; an address is in the map once something has been stored at it.   *)
(* Addresses are absolute: the heap starts at mem_heap_lo(), which is not  *)
(* 0, so that a size read back as a pointer does not point into the heap.  *)
(* A size_t value is kept as its two's complement reading, so that -1      *)
(* stands for SIZE_MAX and -8 for SIZE_MAX - 7; unsigned comparisons go    *)
(* through ULe / ULt.                                                      *)
(*                                                                         *)
(* The module also holds the cache simulator csim.c: its globals are the   *)
(* record csim, and the allocator's runs leave it as the program starts it.*)
(***************************************************************************)
EXTENDS Integers, Sequences, FiniteSets, TLC

\* ------------------------------------------------------------ bounds
\* capacity of the heap provider, in bytes (mem_sbrk refuses beyond it)
MaxHeap == 8296
\* number of pointers the client holds at once
MaxLive == 3
\* number of public calls in one run
MaxCalls == 3
\* words of a payload the client fills when it writes to a block
StoreWords == 2
\* number of accesses in one run of the cache simulator
MaxAccess == 4

\* ------------------------------------------------------------ constants of mm.c
ALIGNMENT == 8
WSIZE == 4
DSIZE == 8
CHUNKSIZE == 4096
LIST_LIMIT == 20
\* sizeof(void*)
PSIZE == 4
NULL == 0

\* ------------------------------------------------------------ unsigned arithmetic
\* a <= b and a < b on size_t values kept as two's complement readings
ULe(a, b) == IF (a >= 0) = (b >= 0) THEN a <= b ELSE b < 0
ULt(a, b) == IF (a >= 0) = (b >= 0) THEN a < b ELSE b < 0

MAX(x, y) == IF ULt(y, x) THEN x ELSE y

\* (size) | (alloc) for alloc in {0, 1}
PACK(size, alloc) == IF size % 2 = 1 THEN size ELSE size + alloc

\* ------------------------------------------------------------ the heap provider
\* A machine state: the stored words, the break, the global seg_list (null
\* until mm_init assigns it), whether the provider refused
\* an extension during the current call, and whether the call left defined
\* behaviour ("wild": a load or store outside the words the heap holds;
\* "hang": a walk that does not end).
Machine(mem_, brk_, seg_) ==
    [mem |-> mem_, brk |-> brk_, seg_list |-> seg_, refused |-> FALSE, fault |-> "none"]

Fault(s, kind) == IF s.fault = "none" THEN [s EXCEPT !.fault = kind] ELSE s

\* the address the provider's region starts at: 0x10000000, above every size
\* and below every client word the runs store
mem_heap_lo == 268435456
mem_heap_hi(s) == s.brk - 1

\* extend(n): the old break, or -1 when the provider refuses
mem_sbrk(s, incr) ==
    IF incr < 0 \/ s.brk + incr > mem_heap_lo + MaxHeap
    THEN [s |-> [s EXCEPT !.refused = TRUE], ret |-> -1]
    ELSE [s |-> [s EXCEPT !.brk = @ + incr], ret |-> s.brk]

\* ------------------------------------------------------------ word access
Readable(s, p) == p \in DOMAIN s.mem /\ p >= mem_heap_lo /\ p + WSIZE <= s.brk

\* the number of steps after which a walk over the stored words has been at
\* one of them twice, and so does not end
WalkLimit(s) == Cardinality(DOMAIN s.mem)

\* s, or s marked when one of the addresses a statement loads from holds nothing
Loads(s, ps) == IF \A p \in ps : Readable(s, p) THEN s ELSE Fault(s, "wild")

GET(s, p) == IF p \in DOMAIN s.mem THEN s.mem[p] ELSE 0

PUT(s, p, val) ==
    IF p % WSIZE = 0 /\ p >= mem_heap_lo /\ p + WSIZE <= s.brk
    THEN [s EXCEPT !.mem = [a \in DOMAIN s.mem \cup {p} |-> IF a = p THEN val ELSE s.mem[a]]]
    ELSE Fault(s, "wild")

GET_SIZE(s, p) == GET(s, p) - (GET(s, p) % 8)
GET_ALLOC(s, p) == GET(s, p) % 2

HDRP(bp) == bp - WSIZE
FTRP(s, bp) == bp + GET_SIZE(s, HDRP(bp)) - DSIZE

NEXT_BLKP(s, bp) == bp + GET_SIZE(s, bp - WSIZE)
PREV_BLKP(s, bp) == bp - GET_SIZE(s, bp - DSIZE)

PRED_PTR(bp) == bp
SUCC_PTR(bp) == bp + WSIZE

GET_PRED(s, bp) == GET(s, PRED_PTR(bp))
SET_PRED(s, bp, ptr) == PUT(s, PRED_PTR(bp), ptr)
GET_SUCC(s, bp) == GET(s, SUCC_PTR(bp))
SET_SUCC(s, bp, ptr) == PUT(s, SUCC_PTR(bp), ptr)

\* &seg_list[i]: seg_list is what mm_init got from mem_sbrk
SegSlot(s, i) == s.seg_list + i * PSIZE

\* ------------------------------------------------------------ size classes
get_list_index(size) ==
    IF ULe(size, 16) THEN 0
    ELSE IF ULe(size, 24) THEN 1
    ELSE IF ULe(size, 32) THEN 2
    ELSE IF ULe(size, 40) THEN 3
    ELSE IF ULe(size, 48) THEN 4
    ELSE IF ULe(size, 56) THEN 5
    ELSE IF ULe(size, 64) THEN 6
    ELSE IF ULe(size, 72) THEN 7
    ELSE IF ULe(size, 80) THEN 8
    ELSE IF ULe(size, 88) THEN 9
    ELSE IF ULe(size, 96) THEN 10
    ELSE IF ULe(size, 104) THEN 11
    ELSE IF ULe(size, 112) THEN 12
    ELSE IF ULe(size, 128) THEN 13
    ELSE IF ULe(size, 256) THEN 14
    ELSE IF ULe(size, 512) THEN 15
    ELSE IF ULe(size, 1024) THEN 16
    ELSE IF ULe(size, 2048) THEN 17
    ELSE IF ULe(size, 4096) THEN 18
    ELSE 19

\* ------------------------------------------------------------ sequencing
\* F applied to the value of v, v being evaluated once: the statements of a C
\* function run one after the other, each on the heap the one before it left
Bind(v, F(_)) == CHOOSE r \in {F(x) : x \in {v}} : TRUE

\* ------------------------------------------------------------ free lists
insert_node(s, bp, size) ==
    LET index == get_list_index(size)
    IN  Bind(Loads(s, {SegSlot(s, index)}), LAMBDA s0 :
        LET root == GET(s0, SegSlot(s0, index))
        IN  Bind(SET_SUCC(s0, bp, root), LAMBDA s1 :
            Bind(SET_PRED(s1, bp, NULL), LAMBDA s2 :
            Bind(IF root # NULL THEN SET_PRED(s2, root, bp) ELSE s2, LAMBDA s3 :
            PUT(s3, SegSlot(s3, index), bp)))))

delete_node(s, bp) ==
    Bind(Loads(s, {HDRP(bp), PRED_PTR(bp), SUCC_PTR(bp)}), LAMBDA s0 :
    LET size == GET_SIZE(s0, HDRP(bp))
        index == get_list_index(size)
    IN  Bind(IF GET_PRED(s0, bp) # NULL
             THEN SET_SUCC(s0, GET_PRED(s0, bp), GET_SUCC(s0, bp))
             ELSE PUT(s0, SegSlot(s0, index), GET_SUCC(s0, bp)), LAMBDA s1 :
        Bind(Loads(s1, {SUCC_PTR(bp), PRED_PTR(bp)}), LAMBDA s2 :
        IF GET_SUCC(s2, bp) # NULL
        THEN SET_PRED(s2, GET_SUCC(s2, bp), GET_PRED(s2, bp))
        ELSE s2)))

\* ------------------------------------------------------------ coalescing
coalesce(s, bp) ==
    Bind(Loads(s, {bp - DSIZE, HDRP(PREV_BLKP(s, bp)), FTRP(s, PREV_BLKP(s, bp)),
                   HDRP(bp), HDRP(NEXT_BLKP(s, bp))}), LAMBDA s0 :
    LET prev_alloc == GET_ALLOC(s0, FTRP(s0, PREV_BLKP(s0, bp)))
        next_alloc == GET_ALLOC(s0, HDRP(NEXT_BLKP(s0, bp)))
        size == GET_SIZE(s0, HDRP(bp))
    IN  IF prev_alloc = 1 /\ next_alloc = 1 THEN
            \* case 1
            [s |-> insert_node(s0, bp, size), bp |-> bp]
        ELSE IF prev_alloc = 1 /\ next_alloc = 0 THEN
            \* case 2
            Bind(delete_node(s0, NEXT_BLKP(s0, bp)), LAMBDA t1 :
            Bind(Loads(t1, {HDRP(bp), HDRP(NEXT_BLKP(t1, bp))}), LAMBDA t2 :
            LET size2 == size + GET_SIZE(t2, HDRP(NEXT_BLKP(t2, bp)))
            IN  Bind(PUT(t2, HDRP(bp), PACK(size2, 0)), LAMBDA t3 :
                Bind(PUT(t3, FTRP(t3, bp), PACK(size2, 0)), LAMBDA t4 :
                [s |-> insert_node(t4, bp, size2), bp |-> bp]))))
        ELSE IF prev_alloc = 0 /\ next_alloc = 1 THEN
            \* case 3
            Bind(delete_node(s0, PREV_BLKP(s0, bp)), LAMBDA t1 :
            Bind(Loads(t1, {bp - DSIZE, HDRP(PREV_BLKP(t1, bp)), HDRP(bp)}), LAMBDA t2 :
            LET size2 == size + GET_SIZE(t2, HDRP(PREV_BLKP(t2, bp)))
            IN  Bind(PUT(t2, FTRP(t2, bp), PACK(size2, 0)), LAMBDA t3 :
                Bind(PUT(Loads(t3, {bp - DSIZE}), HDRP(PREV_BLKP(t3, bp)), PACK(size2, 0)), LAMBDA t4 :
                Bind(Loads(t4, {bp - DSIZE}), LAMBDA t5 :
                [s |-> insert_node(t5, PREV_BLKP(t5, bp), size2), bp |-> PREV_BLKP(t5, bp)])))))
        ELSE
            \* case 4
            Bind(delete_node(s0, PREV_BLKP(s0, bp)), LAMBDA t1 :
            Bind(delete_node(Loads(t1, {HDRP(bp)}), NEXT_BLKP(t1, bp)), LAMBDA t2 :
            Bind(Loads(t2, {bp - DSIZE, HDRP(PREV_BLKP(t2, bp)), HDRP(bp),
                            HDRP(NEXT_BLKP(t2, bp)), FTRP(t2, NEXT_BLKP(t2, bp))}), LAMBDA t3 :
            LET size2 == size + GET_SIZE(t3, HDRP(PREV_BLKP(t3, bp)))
                              + GET_SIZE(t3, FTRP(t3, NEXT_BLKP(t3, bp)))
            IN  Bind(PUT(t3, HDRP(PREV_BLKP(t3, bp)), PACK(size2, 0)), LAMBDA t4 :
                Bind(Loads(t4, {HDRP(bp), HDRP(NEXT_BLKP(t4, bp))}), LAMBDA t5 :
                Bind(PUT(t5, FTRP(t5, NEXT_BLKP(t5, bp)), PACK(size2, 0)), LAMBDA t6 :
                Bind(Loads(t6, {bp - DSIZE}), LAMBDA t7 :
                [s |-> insert_node(t7, PREV_BLKP(t7, bp), size2),
                 bp |-> PREV_BLKP(t7, bp)]))))))))

\* ------------------------------------------------------------ heap extension
extend_heap(s, words) ==
    LET size == IF words % 2 = 1 THEN (words + 1) * WSIZE ELSE words * WSIZE
    IN  Bind(mem_sbrk(s, size), LAMBDA r :
        IF r.ret = -1 THEN [s |-> r.s, bp |-> NULL]
        ELSE
            Bind(PUT(r.s, HDRP(r.ret), PACK(size, 0)), LAMBDA t1 :
            Bind(PUT(t1, FTRP(t1, r.ret), PACK(size, 0)), LAMBDA t2 :
            Bind(PUT(t2, HDRP(NEXT_BLKP(t2, r.ret)), PACK(0, 1)), LAMBDA t3 :
            coalesce(t3, r.ret)))))

\* ------------------------------------------------------------ placement
place(s, bp, asize) ==
    Bind(Loads(s, {HDRP(bp)}), LAMBDA s0 :
    LET csize == GET_SIZE(s0, HDRP(bp))
    IN  Bind(delete_node(s0, bp), LAMBDA t1 :
        IF ULe(2 * DSIZE, csize - asize) THEN
            Bind(PUT(t1, HDRP(bp), PACK(asize, 1)), LAMBDA t2 :
            Bind(PUT(t2, FTRP(t2, bp), PACK(asize, 1)), LAMBDA t3 :
            LET nbp == NEXT_BLKP(t3, bp)
            IN  Bind(PUT(Loads(t3, {HDRP(bp)}), HDRP(nbp), PACK(csize - asize, 0)), LAMBDA t4 :
                Bind(PUT(t4, FTRP(t4, nbp), PACK(csize - asize, 0)), LAMBDA t5 :
                insert_node(t5, nbp, csize - asize)))))
        ELSE
            Bind(PUT(t1, HDRP(bp), PACK(csize, 1)), LAMBDA t2 :
            PUT(t2, FTRP(t2, bp), PACK(csize, 1)))))

\* the walk that stops at the first block that fits
RECURSIVE fit_walk_first(_, _)
fit_walk_first(w, asize) ==
    IF w.i >= LIST_LIMIT THEN [s |-> w.s, bp |-> NULL]
    ELSE IF w.bp = NULL THEN
        IF w.i + 1 >= LIST_LIMIT THEN [s |-> w.s, bp |-> NULL]
        ELSE Bind([w EXCEPT !.s = Loads(w.s, {SegSlot(w.s, w.i + 1)}),
                            !.i = w.i + 1,
                            !.bp = GET(w.s, SegSlot(w.s, w.i + 1)),
                            !.fuel = WalkLimit(w.s)],
                  LAMBDA w1 : fit_walk_first(w1, asize))
    ELSE IF ~Readable(w.s, HDRP(w.bp)) THEN [s |-> Fault(w.s, "wild"), bp |-> NULL]
    ELSE IF w.fuel = 0 THEN [s |-> Fault(w.s, "hang"), bp |-> NULL]
    ELSE IF ULe(asize, GET_SIZE(w.s, HDRP(w.bp))) THEN [s |-> w.s, bp |-> w.bp]
    ELSE Bind([w EXCEPT !.s = Loads(w.s, {SUCC_PTR(w.bp)}),
                        !.bp = GET_SUCC(w.s, w.bp),
                        !.fuel = w.fuel - 1],
              LAMBDA w1 : fit_walk_first(w1, asize))

\* The two loops of find_fit: w.i is the class, w.bp the node of its list the
\* walk is at, w.s the heap, w.fuel the steps left in this list before the walk
\* is known to go round.  (size_t)-1 is kept as -1.
RECURSIVE fit_walk(_, _)
fit_walk(w, asize) ==
    IF w.i >= LIST_LIMIT THEN [s |-> w.s, bp |-> w.best_bp]
    ELSE IF w.bp = NULL THEN
        IF w.best_bp # NULL THEN [s |-> w.s, bp |-> w.best_bp]
        ELSE IF w.i + 1 >= LIST_LIMIT THEN [s |-> w.s, bp |-> w.best_bp]
        ELSE Bind([w EXCEPT !.s = Loads(w.s, {SegSlot(w.s, w.i + 1)}),
                            !.i = w.i + 1,
                            !.bp = GET(w.s, SegSlot(w.s, w.i + 1)),
                            !.fuel = WalkLimit(w.s)],
                  LAMBDA w1 : fit_walk(w1, asize))
    ELSE IF ~Readable(w.s, HDRP(w.bp)) THEN [s |-> Fault(w.s, "wild"), bp |-> NULL]
    ELSE IF w.fuel = 0 THEN [s |-> Fault(w.s, "hang"), bp |-> NULL]
    ELSE
        LET curr_size == GET_SIZE(w.s, HDRP(w.bp))
            diff == curr_size - asize
            fits == ULe(asize, curr_size)
            better == fits /\ ULt(diff, w.min_diff)
        IN  IF fits /\ diff = 0 THEN [s |-> w.s, bp |-> w.bp]
            ELSE Bind([s |-> Loads(w.s, {SUCC_PTR(w.bp)}),
                       i |-> w.i,
                       bp |-> GET_SUCC(w.s, w.bp),
                       best_bp |-> IF better THEN w.bp ELSE w.best_bp,
                       min_diff |-> IF better THEN diff ELSE w.min_diff,
                       fuel |-> w.fuel - 1],
                      LAMBDA w1 : fit_walk(w1, asize))

find_fit(s, asize) ==
    LET index == get_list_index(asize)
    IN  Bind([s |-> Loads(s, {SegSlot(s, index)}), i |-> index, bp |-> GET(s, SegSlot(s, index)),
              best_bp |-> NULL, min_diff |-> -1, fuel |-> WalkLimit(s)],
             LAMBDA w : fit_walk(w, asize))

\* ------------------------------------------------------------ public calls
\* the rounding with one byte too many added before the division
adjust_over(size) ==
    IF ULe(size, DSIZE) THEN 2 * DSIZE
    ELSE DSIZE * ((size + DSIZE + DSIZE) \div DSIZE)

\* DSIZE * ((size + DSIZE + (DSIZE - 1)) / DSIZE), the sum wrapping modulo 2^32:
\* for size in SIZE_MAX - 14 .. SIZE_MAX (kept as -15 .. -1) it is 0 .. 14
adjust(size) ==
    IF ULe(size, DSIZE) THEN 2 * DSIZE
    ELSE DSIZE * ((size + DSIZE + (DSIZE - 1)) \div DSIZE)

mm_init(s) ==
    Bind(mem_sbrk(s, (LIST_LIMIT * PSIZE) + (4 * WSIZE)), LAMBDA r :
    Bind([r.s EXCEPT !.seg_list = r.ret], LAMBDA r0 :
    IF r.ret = -1 THEN [s |-> r0, ret |-> -1]
    ELSE
        LET slots == {SegSlot(r0, i) : i \in 0 .. LIST_LIMIT - 1}
            prologue_ptr == r0.seg_list + (LIST_LIMIT * PSIZE)
        IN  Bind([r0 EXCEPT !.mem = [a \in DOMAIN r0.mem \cup slots |->
                                       IF a \in slots THEN NULL ELSE r0.mem[a]]], LAMBDA t0 :
            Bind(PUT(t0, prologue_ptr, 0), LAMBDA t1 :
            Bind(PUT(t1, prologue_ptr + (1 * WSIZE), PACK(DSIZE, 1)), LAMBDA t2 :
            Bind(PUT(t2, prologue_ptr + (2 * WSIZE), PACK(DSIZE, 1)), LAMBDA t3 :
            Bind(PUT(t3, prologue_ptr + (3 * WSIZE), PACK(0, 1)), LAMBDA t4 :
            Bind(extend_heap(t4, CHUNKSIZE \div WSIZE), LAMBDA e :
            IF e.bp = NULL THEN [s |-> e.s, ret |-> -1]
            ELSE [s |-> e.s, ret |-> 0]))))))))

mm_malloc(s, size) ==
    IF size = 0 THEN [s |-> s, ret |-> NULL, path |-> "zero"]
    ELSE
        LET asize == adjust(size)
            extendsize == MAX(asize, CHUNKSIZE)
        IN  Bind(find_fit(s, asize), LAMBDA f :
            IF f.bp # NULL THEN [s |-> place(f.s, f.bp, asize), ret |-> f.bp, path |-> "fit"]
            ELSE IF f.s.fault # "none" THEN [s |-> f.s, ret |-> NULL, path |-> "fit"]
            ELSE
                Bind(extend_heap(f.s, extendsize \div WSIZE), LAMBDA e :
                IF e.bp = NULL THEN [s |-> e.s, ret |-> NULL, path |-> "refused"]
                ELSE [s |-> place(e.s, e.bp, asize), ret |-> e.bp, path |-> "extend"]))

mm_free(s, ptr) ==
    IF ptr = NULL THEN s
    ELSE
        Bind(Loads(s, {HDRP(ptr)}), LAMBDA s0 :
        LET size == GET_SIZE(s0, HDRP(ptr))
        IN  Bind(PUT(s0, HDRP(ptr), PACK(size, 0)), LAMBDA t1 :
            Bind(PUT(t1, FTRP(t1, ptr), PACK(size, 0)), LAMBDA t2 :
            coalesce(t2, ptr).s)))

\* memcpy of n bytes, word by word; a word never stored at the source leaves
\* the destination word holding nothing definite
memcpy(s, dst, src, n) ==
    LET srcw == {a \in DOMAIN s.mem : src <= a /\ a < src + n}
        kept == {a - src + dst : a \in srcw}
        rest == {a \in DOMAIN s.mem : a < dst \/ a >= dst + n}
    IN  IF n < 0 \/ n % WSIZE # 0 \/ dst % WSIZE # 0 \/ src % WSIZE # 0
           \/ dst < mem_heap_lo \/ src < mem_heap_lo \/ dst + n > s.brk \/ src + n > s.brk
           \/ (n > 0 /\ dst - src < n /\ src - dst < n)
        THEN Fault(s, "wild")
        ELSE [s EXCEPT !.mem = [a \in rest \cup kept |->
                                   IF a \in kept THEN s.mem[a - dst + src] ELSE s.mem[a]]]

\* policy 2: the next block is free and large enough, absorb it whole
realloc_absorb(s, ptr, next_bp, combine_size) ==
    Bind(delete_node(s, next_bp), LAMBDA t1 :
    Bind(PUT(t1, HDRP(ptr), PACK(combine_size, 1)), LAMBDA t2 :
    Bind(PUT(t2, FTRP(t2, ptr), PACK(combine_size, 1)), LAMBDA t3 :
    [s |-> t3, ret |-> ptr, path |-> "policy2"])))

\* policy 3 that moves the epilogue but leaves the tags of the block as they were
realloc_extend_untagged(s, ptr, old_size, new_size) ==
    LET extend_needed == new_size - old_size
    IN  Bind(mem_sbrk(s, extend_needed), LAMBDA r :
        IF r.ret = -1 THEN [s |-> r.s, ret |-> NULL, path |-> "policy3"]
        ELSE
            Bind(PUT(r.s, HDRP(ptr + extend_needed + old_size), PACK(0, 1)), LAMBDA t3 :
            [s |-> t3, ret |-> ptr, path |-> "policy3"]))

\* policy 3 with the tags written before the provider is asked
realloc_extend_eager(s, ptr, old_size, new_size) ==
    LET extend_needed == new_size - old_size
    IN  Bind(PUT(s, HDRP(ptr), PACK(new_size, 1)), LAMBDA t0 :
        Bind(mem_sbrk(t0, extend_needed), LAMBDA r :
        IF r.ret = -1 THEN [s |-> r.s, ret |-> NULL, path |-> "policy3"]
        ELSE
            Bind(PUT(r.s, FTRP(r.s, ptr), PACK(new_size, 1)), LAMBDA t2 :
            Bind(PUT(t2, HDRP(NEXT_BLKP(t2, ptr)), PACK(0, 1)), LAMBDA t3 :
            [s |-> t3, ret |-> ptr, path |-> "policy3"]))))

\* policy 3: the block is the last one, extend the heap by what is missing
realloc_extend(s, ptr, old_size, new_size) ==
    LET extend_needed == new_size - old_size
    IN  Bind(mem_sbrk(s, extend_needed), LAMBDA r :
        IF r.ret = -1 THEN [s |-> r.s, ret |-> NULL, path |-> "policy3"]
        ELSE
            Bind(PUT(r.s, HDRP(ptr), PACK(new_size, 1)), LAMBDA t1 :
            Bind(PUT(t1, FTRP(t1, ptr), PACK(new_size, 1)), LAMBDA t2 :
            Bind(PUT(t2, HDRP(NEXT_BLKP(t2, ptr)), PACK(0, 1)), LAMBDA t3 :
            [s |-> t3, ret |-> ptr, path |-> "policy3"]))))

\* fallback: a new block, the old payload copied into it, the old block freed
realloc_fallback(s, ptr, size, old_size) ==
    Bind(mm_malloc(s, size), LAMBDA m :
    IF m.ret = NULL THEN [s |-> m.s, ret |-> NULL, path |-> "fallback"]
    ELSE
        Bind(memcpy(m.s, m.ret, ptr, old_size - DSIZE), LAMBDA t1 :
        [s |-> mm_free(t1, ptr), ret |-> m.ret, path |-> "fallback"]))

mm_realloc(s, ptr, size) ==
    IF ptr = NULL THEN mm_malloc(s, size)
    ELSE IF size = 0 THEN [s |-> mm_free(s, ptr), ret |-> NULL, path |-> "free"]
    ELSE
        Bind(Loads(s, {HDRP(ptr)}), LAMBDA s0 :
        LET old_size == GET_SIZE(s0, HDRP(ptr))
            new_size == adjust(size)
        IN  IF ULe(new_size, old_size) THEN
                \* policy 1
                [s |-> s0, ret |-> ptr, path |-> "policy1"]
            ELSE
                Bind(Loads(s0, {HDRP(NEXT_BLKP(s0, ptr))}), LAMBDA s1 :
                LET next_bp == NEXT_BLKP(s1, ptr)
                    next_alloc == GET_ALLOC(s1, HDRP(next_bp))
                    next_size == GET_SIZE(s1, HDRP(next_bp))
                    combine_size == old_size + next_size
                IN  IF next_alloc = 0 /\ ULe(new_size, combine_size) THEN
                        realloc_absorb(s1, ptr, next_bp, combine_size)
                    ELSE IF next_size = 0 THEN realloc_extend(s1, ptr, old_size, new_size)
                    ELSE realloc_fallback(s1, ptr, size, old_size)))

\* ------------------------------------------------------------ the heap walk
\* payload pointer of the prologue, where mm_check starts its walk
heap_start(s) == s.seg_list + (LIST_LIMIT * PSIZE) + (2 * WSIZE)

\* the blocks the heap walk of mm_check visits after the prologue, in the
\* order it visits them: it follows the header sizes until it meets a size of
\* 0 (fault "none"), loads a header from a word that holds nothing ("wild"),
\* or comes to a block a second time ("hang")
RECURSIVE BlocksFrom(_, _, _)
BlocksFrom(s, bp, fuel) ==
    IF ~Readable(s, HDRP(bp)) THEN [bps |-> <<>>, fault |-> "wild"]
    ELSE IF GET_SIZE(s, HDRP(bp)) = 0 THEN [bps |-> <<>>, fault |-> "none"]
    ELSE IF fuel = 0 THEN [bps |-> <<>>, fault |-> "hang"]
    ELSE Bind(BlocksFrom(s, NEXT_BLKP(s, bp), fuel - 1),
              LAMBDA r : [r EXCEPT !.bps = <<bp>> \o @])

Blocks(s) == BlocksFrom(s, heap_start(s) + DSIZE, WalkLimit(s))

\* address, size and allocated bit of every block the walk visits, how the
\* walk ends, and hi
Layout(s) ==
    Bind(Blocks(s), LAMBDA w :
    [blocks |-> [k \in DOMAIN w.bps |->
                    <<w.bps[k], GET_SIZE(s, HDRP(w.bps[k])), GET_ALLOC(s, HDRP(w.bps[k]))>>],
     fault |-> w.fault,
     hi |-> s.brk])

\* ------------------------------------------------------------ mm_check
\* A run of mm_check ends with [ret |-> 1, diag |-> "ok"], or aborts (exit(1),
\* ret 0) with the diagnostic it printed; "wild" and "hang" are a load from a
\* word that holds nothing and a walk that does not end.
Abort(d) == [ret |-> 0, diag |-> d]

\* the check that accepts a header and a footer that differ
checkblock_lax(s, bp) ==
    IF bp % 8 # 0 THEN "not doubleword aligned"
    ELSE "ok"

checkblock(s, bp) ==
    IF bp % 8 # 0 THEN "not doubleword aligned"
    ELSE IF ~Readable(s, HDRP(bp)) \/ ~Readable(s, FTRP(s, bp)) THEN "wild"
    ELSE IF GET(s, HDRP(bp)) # GET(s, FTRP(s, bp)) THEN "Header does not match footer"
    ELSE "ok"

\* the first loop of mm_check, from block w.bp on; w.count is free_count_by_heap
RECURSIVE check_heap(_, _)
check_heap(s, w) ==
    IF ~Readable(s, HDRP(w.bp)) THEN [w EXCEPT !.diag = "wild"]
    ELSE IF GET_SIZE(s, HDRP(w.bp)) = 0 THEN w
    ELSE IF w.fuel = 0 THEN [w EXCEPT !.diag = "hang"]
    ELSE IF checkblock(s, w.bp) # "ok" THEN [w EXCEPT !.diag = checkblock(s, w.bp)]
    ELSE IF GET_ALLOC(s, HDRP(w.bp)) = 0 /\ ~Readable(s, HDRP(NEXT_BLKP(s, w.bp)))
        THEN [w EXCEPT !.diag = "wild"]
    ELSE IF GET_ALLOC(s, HDRP(w.bp)) = 0 /\ GET_ALLOC(s, HDRP(NEXT_BLKP(s, w.bp))) = 0
        THEN [w EXCEPT !.diag = "Contiguous free blocks not coalesced"]
    ELSE Bind([w EXCEPT !.bp = NEXT_BLKP(s, w.bp),
                        !.count = IF GET_ALLOC(s, HDRP(w.bp)) = 0 THEN w.count + 1 ELSE w.count,
                        !.fuel = w.fuel - 1],
              LAMBDA w1 : check_heap(s, w1))

\* the second loop of mm_check: list w.i from node w.curr on, w.prev the node
\* before it; w.count is free_count_by_list
RECURSIVE check_lists(_, _)
check_lists(s, w) ==
    IF w.i >= LIST_LIMIT THEN w
    ELSE IF w.curr = NULL THEN
        IF w.i + 1 >= LIST_LIMIT THEN [w EXCEPT !.i = w.i + 1]
        ELSE IF ~Readable(s, SegSlot(s, w.i + 1)) THEN [w EXCEPT !.diag = "wild"]
        ELSE Bind([w EXCEPT !.i = w.i + 1, !.curr = GET(s, SegSlot(s, w.i + 1)), !.prev = NULL,
                            !.fuel = WalkLimit(s)],
                  LAMBDA w1 : check_lists(s, w1))
    ELSE IF ULt(w.curr, mem_heap_lo) \/ ULt(mem_heap_hi(s), w.curr)
        THEN [w EXCEPT !.diag = "Free list pointer out of bounds"]
    ELSE IF w.fuel = 0 THEN [w EXCEPT !.diag = "hang"]
    ELSE IF ~Readable(s, HDRP(w.curr)) THEN [w EXCEPT !.diag = "wild"]
    ELSE IF GET_ALLOC(s, HDRP(w.curr)) # 0
        THEN [w EXCEPT !.diag = "Allocated block in free list"]
    ELSE IF w.prev # NULL /\ ~Readable(s, PRED_PTR(w.curr)) THEN [w EXCEPT !.diag = "wild"]
    ELSE IF w.prev # NULL /\ GET_PRED(s, w.curr) # w.prev
        THEN [w EXCEPT !.diag = "Prev pointer inconsistency"]
    ELSE IF ~Readable(s, SUCC_PTR(w.curr)) THEN [w EXCEPT !.diag = "wild"]
    ELSE Bind([w EXCEPT !.curr = GET_SUCC(s, w.curr), !.prev = w.curr,
                        !.count = w.count + 1, !.fuel = w.fuel - 1],
              LAMBDA w1 : check_lists(s, w1))

mm_check(s) ==
    IF ~Readable(s, HDRP(heap_start(s))) THEN Abort("wild")
    ELSE IF GET_SIZE(s, HDRP(heap_start(s))) # DSIZE \/ GET_ALLOC(s, HDRP(heap_start(s))) = 0
        THEN Abort("Bad prologue header")
    ELSE
        Bind(check_heap(s, [bp |-> heap_start(s), count |-> 0, fuel |-> WalkLimit(s), diag |-> "ok"]),
             LAMBDA h :
        IF h.diag # "ok" THEN Abort(h.diag)
        ELSE IF GET_SIZE(s, HDRP(h.bp)) # 0 \/ GET_ALLOC(s, HDRP(h.bp)) = 0
            THEN Abort("Bad epilogue header")
        ELSE IF ~Readable(s, SegSlot(s, 0)) THEN Abort("wild")
        ELSE
            Bind(check_lists(s, [i |-> 0, curr |-> GET(s, SegSlot(s, 0)), prev |-> NULL,
                                 count |-> 0, fuel |-> WalkLimit(s), diag |-> "ok"]),
                 LAMBDA l :
            IF l.diag # "ok" THEN Abort(l.diag)
            ELSE IF h.count # l.count THEN Abort("Free block count mismatch")
            ELSE [ret |-> 1, diag |-> "ok"]))

\* ------------------------------------------------------------ the client
\* request sizes the client uses; -1 is SIZE_MAX and -8 is SIZE_MAX - 7
ReqSizes == {1, 24, 4088, 4096, -1, -8}

\* what the word at address a holds: <<v>>, or <<>> when nothing was stored
Word(m, a) == IF a \in DOMAIN m THEN <<m[a]>> ELSE <<>>

\* the word the client stores at address a of a payload
ClientWord(a) == MaxHeap + a + 1

\* the first words of the payload of the block at p that the client fills; the
\* payload is [p, p + size - 8) for the size the header of the block gives
StoredWords(s, p) ==
    {a \in {p + WSIZE * k : k \in 0 .. StoreWords - 1} :
        a + WSIZE <= p + GET_SIZE(s, HDRP(p)) - DSIZE /\ a + WSIZE <= s.brk}

\* ------------------------------------------------------------ csim.c
\* 1 << n
Pow2(n) == 2 ^ n

\* the globals of csim.c as the program starts: s, E, b, the counters and the
\* timer are 0 and cache.sets is a null pointer (kept as the empty sequence);
\* arrays is the number of arrays obtained from malloc and not yet freed, and
\* pc where main is: reading its options, in the trace loop, or past freeCache
csim_globals ==
    [s |-> 0, E |-> 0, b |-> 0, sets |-> <<>>, arrays |-> 0, pc |-> "options",
     hit_count |-> 0, miss_count |-> 0, eviction_count |-> 0, global_timer |-> 0]

\* sets are indexed 0 .. S - 1 and the lines of a set 0 .. E - 1; the array of
\* sets and the lines of each set are an array of their own
allocateCache(c) ==
    [c EXCEPT !.sets = [i \in 0 .. Pow2(c.s) - 1 |->
                           [j \in 0 .. c.E - 1 |-> [valid |-> 0, tag |-> 0, last_access |-> 0]]],
              !.arrays = @ + 1 + Pow2(c.s)]

\* the lines of every set and the array of sets are released: cache.sets is
\* left dangling, and the model holds no line for it any more
freeCache(c) ==
    [c EXCEPT !.sets = <<>>, !.arrays = @ - (Pow2(c.s) + 1)]

\* (address >> b) & ((1 << s) - 1) and address >> (s + b)
SetIndex(c, address) == (address \div Pow2(c.b)) % Pow2(c.s)
Tag(c, address) == address \div Pow2(c.s + c.b)

\* the loop of accessCache from line i on: w.hit is the line it returned at
\* (-1: none), w.empty the first invalid line (-1: none), w.lru the valid line
\* of least last_access so far and w.min_time that time, (unsigned)-1 at first
RECURSIVE scan_lines(_, _, _, _, _)
scan_lines(lines, E, tag, i, w) ==
    IF i >= E THEN w
    ELSE IF lines[i].valid # 0 THEN
        IF lines[i].tag = tag THEN [w EXCEPT !.hit = i]
        ELSE Bind(IF ULt(lines[i].last_access, w.min_time)
                  THEN [w EXCEPT !.min_time = lines[i].last_access, !.lru = i]
                  ELSE w,
                  LAMBDA w1 : scan_lines(lines, E, tag, i + 1, w1))
    ELSE Bind(IF w.empty = -1 THEN [w EXCEPT !.empty = i] ELSE w,
              LAMBDA w1 : scan_lines(lines, E, tag, i + 1, w1))

\* accessCache that leaves last_access as it is on a hit
accessCache_stale(c, address) ==
    LET set_index == SetIndex(c, address)
        tag == Tag(c, address)
        timer == c.global_timer + 1
    IN  Bind(scan_lines(c.sets[set_index], c.E, tag, 0,
                        [hit |-> -1, empty |-> -1, lru |-> 0, min_time |-> -1]), LAMBDA w :
        IF w.hit # -1
        THEN [c EXCEPT !.global_timer = timer, !.hit_count = @ + 1]
        ELSE LET target == IF w.empty # -1 THEN w.empty ELSE w.lru
             IN  [c EXCEPT !.global_timer = timer,
                           !.miss_count = @ + 1,
                           !.eviction_count = IF w.empty = -1 THEN @ + 1 ELSE @,
                           !.sets[set_index][target] =
                               [valid |-> 1, tag |-> tag, last_access |-> timer]])

accessCache(c, address) ==
    LET set_index == SetIndex(c, address)
        tag == Tag(c, address)
        timer == c.global_timer + 1
    IN  Bind(scan_lines(c.sets[set_index], c.E, tag, 0,
                        [hit |-> -1, empty |-> -1, lru |-> 0, min_time |-> -1]), LAMBDA w :
        IF w.hit # -1
        THEN [c EXCEPT !.global_timer = timer,
                       !.hit_count = @ + 1,
                       !.sets[set_index][w.hit].last_access = timer]
        ELSE LET target == IF w.empty # -1 THEN w.empty ELSE w.lru
             IN  [c EXCEPT !.global_timer = timer,
                           !.miss_count = @ + 1,
                           !.eviction_count = IF w.empty = -1 THEN @ + 1 ELSE @,
                           !.sets[set_index][target] =
                               [valid |-> 1, tag |-> tag, last_access |-> timer]])

\* the options -s, -E, -b a run is started with, and the addresses of its trace
CacheShapes == {[s |-> 1, E |-> 1, b |-> 1], [s |-> 1, E |-> 2, b |-> 1], [s |-> 2, E |-> 2, b |-> 2]}
CacheAddrs == {0, 1, 2, 4, 8, 16, 32}

\* ------------------------------------------------------------ state
VARIABLES
    mem,      \* the words stored in the heap
    brk,      \* the break: hi, the first address after the heap
    seg_list, \* the global seg_list of mm.c
    status,   \* "fresh" before mm_init, "ready", "nomem" (mm_init failed),
              \* or how a call left defined behaviour: "wild", "hang"
    live,     \* the pointers the client holds (returned and not yet freed),
              \* in ascending order; a pointer returned twice is held twice
    last,     \* the last public call: its arguments, result and path
    calls,    \* number of public calls made
    csim,     \* the globals of csim.c
    trace     \* the addresses accessCache was called with, in order

vars == <<mem, brk, seg_list, status, live, last, calls, csim, trace>>

\* the cache simulator has not been started
CacheOff == csim = csim_globals /\ trace = <<>>

EmptyMem == [a \in {} |-> 0]
Cur == Machine(mem, brk, seg_list)

\* the client's pointers with the k-th dropped, and with p added in order
Drop(seq, k) == [j \in 1 .. Len(seq) - 1 |-> IF j < k THEN seq[j] ELSE seq[j + 1]]
Hold(seq, p) ==
    LET n == Cardinality({j \in DOMAIN seq : seq[j] <= p})
    IN  [j \in 1 .. Len(seq) + 1 |->
            IF j <= n THEN seq[j] ELSE IF j = n + 1 THEN p ELSE seq[j - 1]]

NoCall == [op |-> "none", ptr |-> NULL, size |-> 0, ret |-> NULL, path |-> "",
           refused |-> FALSE, before |-> <<>>, undo |-> ""]

Call(op_, ptr_, size_, ret_, path_, s) ==
    [op |-> op_, ptr |-> ptr_, size |-> size_, ret |-> ret_, path |-> path_,
     refused |-> s.refused, before |-> Layout(Cur),
     \* for mm_free(p): how the mm_malloc just before it obtained p, if it returned p
     undo |-> IF op_ = "free" /\ ptr_ # NULL /\ last.op = "malloc" /\ last.ret = ptr_
              THEN last.path ELSE ""]

Init ==
    /\ mem = EmptyMem
    /\ brk = mem_heap_lo
    /\ seg_list = NULL
    /\ status = "fresh"
    /\ live = <<>>
    /\ last = NoCall
    /\ calls = 0
    /\ CacheOff

\* what a call leaves behind: the heap it produced, or nothing definite once it
\* has left defined behaviour
Commit(s, live_, call) ==
    IF s.fault = "none"
    THEN /\ mem' = s.mem
         /\ brk' = s.brk
         /\ seg_list' = s.seg_list
         /\ status' = "ready"
         /\ live' = live_
         /\ last' = call
    ELSE /\ mem' = EmptyMem
         /\ brk' = mem_heap_lo
         /\ seg_list' = NULL
         /\ status' = s.fault
         /\ live' = <<>>
         /\ last' = [call EXCEPT !.ret = NULL]

MMInit ==
    /\ status = "fresh"
    /\ \E r \in {mm_init(Cur)} :
           /\ mem' = r.s.mem
           /\ brk' = r.s.brk
           /\ seg_list' = r.s.seg_list
           /\ status' = IF r.s.fault # "none" THEN r.s.fault
                        ELSE IF r.ret = 0 THEN "ready" ELSE "nomem"
           /\ last' = Call("init", NULL, 0, r.ret, "", r.s)
    /\ UNCHANGED <<live, calls>>
    /\ UNCHANGED <<csim, trace>>

Malloc(size, budget) ==
    /\ status = "ready"
    /\ calls < budget
    /\ Len(live) < MaxLive
    /\ \E r \in {mm_malloc(Cur, size)} :
           Commit(r.s,
                  IF r.ret # NULL THEN Hold(live, r.ret) ELSE live,
                  Call("malloc", NULL, size, r.ret, r.path, r.s))
    /\ calls' = calls + 1
    /\ UNCHANGED <<csim, trace>>

Free(k, budget) ==
    /\ status = "ready"
    /\ calls < budget
    /\ k \in DOMAIN live
    /\ \E s \in {mm_free(Cur, live[k])} :
           Commit(s, Drop(live, k), Call("free", live[k], 0, NULL, "", s))
    /\ calls' = calls + 1
    /\ UNCHANGED <<csim, trace>>

FreeNull(budget) ==
    /\ status = "ready"
    /\ calls < budget
    /\ \E s \in {mm_free(Cur, NULL)} :
           Commit(s, live, Call("free", NULL, 0, NULL, "", s))
    /\ calls' = calls + 1
    /\ UNCHANGED <<csim, trace>>

Realloc(k, size, budget) ==
    /\ status = "ready"
    /\ calls < budget
    /\ k \in DOMAIN live
    /\ \E r \in {mm_realloc(Cur, live[k], size)} :
           Commit(r.s,
                  IF r.ret # NULL THEN Hold(Drop(live, k), r.ret)
                  ELSE IF size = 0 THEN Drop(live, k)
                  ELSE live,
                  Call("realloc", live[k], size, r.ret, r.path, r.s))
    /\ calls' = calls + 1
    /\ UNCHANGED <<csim, trace>>

ReallocNull(size, budget) ==
    /\ status = "ready"
    /\ calls < budget
    /\ Len(live) < MaxLive
    /\ \E r \in {mm_realloc(Cur, NULL, size)} :
           Commit(r.s,
                  IF r.ret # NULL THEN Hold(live, r.ret) ELSE live,
                  Call("realloc", NULL, size, r.ret, r.path, r.s))
    /\ calls' = calls + 1
    /\ UNCHANGED <<csim, trace>>

\* the client fills the first words of a payload it holds
Store(k, budget) ==
    /\ status = "ready"
    /\ calls < budget
    /\ k \in DOMAIN live
    /\ Readable(Cur, HDRP(live[k]))
    /\ \E ws \in {StoredWords(Cur, live[k])} :
           /\ ~(\A a \in ws : Word(mem, a) = <<ClientWord(a)>>)
           /\ mem' = [a \in DOMAIN mem \cup ws |-> IF a \in ws THEN ClientWord(a) ELSE mem[a]]
    /\ UNCHANGED <<brk, seg_list, status, live, last, calls>>
    /\ UNCHANGED <<csim, trace>>

\* one step of the client: its request sizes are drawn from sizes, and it makes
\* at most budget calls
ClientStep(sizes, budget) ==
    \/ \E size \in sizes \cup {0} : Malloc(size, budget)
    \/ \E k \in 1 .. MaxLive : Free(k, budget)
    \/ FreeNull(budget)
    \/ \E k \in 1 .. MaxLive, size \in sizes \cup {0} : Realloc(k, size, budget)
    \/ \E size \in sizes : ReallocNull(size, budget)
    \/ \E k \in 1 .. MaxLive : Store(k, budget)

NextOver(sizes, budget) ==
    \/ MMInit
    \/ ClientStep(sizes, budget)

Next == NextOver(ReqSizes, MaxCalls)

Spec == Init /\ [][Next]_vars

\* the runs in which no request is within 15 of SIZE_MAX
NextInRange == NextOver({n \in ReqSizes : n > 0}, MaxCalls)

SpecInRange == Init /\ [][NextInRange]_vars

\* the runs of Spec carried one call further
NextDeep == NextOver(ReqSizes, MaxCalls + 1)

SpecDeep == Init /\ [][NextDeep]_vars

\* ------------------------------------------------------------ vocabulary of the claims
Ready == status = "ready"

\* a public call has just returned (the step is a call, not a client store)
Returned == calls' = calls + 1 /\ status' = "ready"

BlockSize(p) == GET_SIZE(Cur, HDRP(p))
BlockAlloc(p) == GET_ALLOC(Cur, HDRP(p))
\* payload capacity of the block at p: block size - 8
Capacity(p) == BlockSize(p) - DSIZE

\* first block address, after the list table and the prologue
FirstBlock == heap_start(Cur) + DSIZE

BlockSet == {Blocks(Cur).bps[k] : k \in DOMAIN Blocks(Cur).bps}

\* ------------------------------------------------------------ C1
\* C1: the payload ranges [p, p + block_size(p) - 8) of the pointers the client
\* holds are pairwise disjoint, and each lies after the list table and the
\* prologue and before the epilogue word at hi - 4.
C1_PayloadsDisjointInHeap ==
    Ready =>
        /\ \A i, j \in DOMAIN live :
               i < j => \/ live[i] + Capacity(live[i]) <= live[j]
                        \/ live[j] + Capacity(live[j]) <= live[i]
        /\ \A i \in DOMAIN live :
               /\ live[i] >= FirstBlock
               /\ Capacity(live[i]) >= 0
               /\ live[i] + Capacity(live[i]) <= brk - WSIZE

\* ------------------------------------------------------------ C2
\* C2: whenever mm_malloc(s) or mm_realloc(p, s) with s > 0 returns a non-null
\* pointer, the block it points to has payload capacity of at least s bytes,
\* also for s within 15 of SIZE_MAX.
C2_CapacityCoversRequest ==
    (Ready /\ last.op \in {"malloc", "realloc"} /\ last.size # 0 /\ last.ret # NULL) =>
        /\ Capacity(last.ret) >= 0
        /\ ULe(last.size, Capacity(last.ret))

\* ------------------------------------------------------------ C3
\* the words of the first n bytes at address a
Leading(a, n) == {a + WSIZE * k : k \in 0 .. ((n + WSIZE - 1) \div WSIZE) - 1}

\* min(old_block_size - 8, n), n an unsigned size
Preserved(p, n) == IF ULe(n, Capacity(p)) THEN n ELSE Capacity(p)

\* C3: when mm_realloc(p, n), p held by the client and n > 0, returns non-null r,
\* the first min(old_block_size - 8, n) payload bytes at r are the bytes that
\* were at p before the call.
C3_ReallocKeepsBytes ==
    [][ (Returned /\ last'.op = "realloc" /\ last'.ptr # NULL /\ last'.size # 0
          /\ last'.ret # NULL)
        => \A a \in Leading(last'.ptr, Preserved(last'.ptr, last'.size)) :
               Word(mem', a - last'.ptr + last'.ret) = Word(mem, a) ]_vars

\* ------------------------------------------------------------ C4
\* the payload words of the block at p that hold something before or after the step
TouchedPayload(p) ==
    {a \in DOMAIN mem \cup DOMAIN mem' : p <= a /\ a < p + Capacity(p)}

\* C4: a call whose pointer argument is not b leaves every allocated block b the
\* client holds as it was: its header word (size and allocated bit) and every
\* payload word.
C4_OtherBlocksUntouched ==
    [][ Returned =>
          \A i \in DOMAIN live :
              (live[i] # last'.ptr /\ BlockAlloc(live[i]) = 1) =>
                  /\ Word(mem', HDRP(live[i])) = Word(mem, HDRP(live[i]))
                  /\ \A a \in TouchedPayload(live[i]) : Word(mem', a) = Word(mem, a) ]_vars

\* ------------------------------------------------------------ C5
\* C5: when the heap provider refuses an extension during mm_malloc or
\* mm_realloc, the call returns null and the heap is exactly as before the
\* call: every stored word (tags, list heads, links, payloads) and hi.
C5_RefusalChangesNothing ==
    [][ (Returned /\ last'.op \in {"malloc", "realloc"} /\ last'.refused)
        => /\ last'.ret = NULL
           /\ mem' = mem
           /\ brk' = brk
           /\ live' = live ]_vars

\* a refused policy 3: the block is still held, allocated, and null was returned
C5_Witness ==
    /\ Ready
    /\ last.op = "realloc" /\ last.path = "policy3" /\ last.refused /\ last.ret = NULL
    /\ \E i \in DOMAIN live : live[i] = last.ptr /\ BlockAlloc(live[i]) = 1

\* ------------------------------------------------------------ C7
\* C7: for a pointer p the client holds and 0 < n <= block_size(p) - 8,
\* mm_realloc(p, n) returns p and changes nothing: no stored word (so no tag,
\* list head or link) and not hi.
C7_ShrinkInPlace ==
    [][ (calls' = calls + 1 /\ last'.op = "realloc" /\ last'.ptr # NULL /\ last'.size # 0
          /\ Capacity(last'.ptr) >= 0 /\ ULe(last'.size, Capacity(last'.ptr)))
        => /\ status' = "ready"
           /\ last'.ret = last'.ptr
           /\ mem' = mem
           /\ brk' = brk ]_vars

\* ------------------------------------------------------------ C6
\* the step frees the pointer the preceding mm_malloc returned
FreesLastMalloc ==
    /\ Returned
    /\ last.op = "malloc" /\ last.ret # NULL
    /\ last'.op = "free" /\ last'.ptr = last.ret

\* C6: for every n > 0 for which mm_malloc(n) returns non-null p,
\* p = mm_malloc(n) followed immediately by mm_free(p) leaves the block layout
\* (address, size and allocated bit of every block, and hi) as it was before
\* the mm_malloc call.
C6_MallocFreeRestoresLayout ==
    [][ FreesLastMalloc => Layout(Cur') = last.before ]_vars

\* the layout lay with the heap grown by d bytes and the new bytes free: joined
\* to the last block when that one is free, a block of their own otherwise
Grown(lay, d) ==
    LET n == Len(lay.blocks)
    IN  IF n > 0 /\ lay.blocks[n][3] = 0
        THEN [lay EXCEPT !.blocks[n] = <<@[1], @[2] + d, 0>>, !.hi = @ + d]
        ELSE [lay EXCEPT !.blocks = Append(@, <<lay.hi, d, 0>>), !.hi = @ + d]

\* What the pair does when no request is within 15 of SIZE_MAX (SpecInRange):
\* when mm_malloc(n) took the block from the free lists, the layout after
\* mm_free(p) is the layout before the mm_malloc call; when it extended the
\* heap, it is that layout with hi advanced by max(asize, 4096) and the added
\* bytes free at the tail.
MallocFreeRestoresOrGrows ==
    [][ FreesLastMalloc =>
          Layout(Cur') =
              IF last.path = "extend"
              THEN Grown(last.before, MAX(adjust(last.size), CHUNKSIZE))
              ELSE last.before ]_vars

\* ------------------------------------------------------------ C8
\* C8: after every public call every block between the prologue and the
\* epilogue has an 8-byte aligned payload pointer, a header word equal to its
\* footer word, and a size that is a multiple of 8 and at least 16.
C8_BlocksWellFormed ==
    Ready =>
        /\ Blocks(Cur).fault = "none"
        /\ \A bp \in BlockSet :
            /\ bp % ALIGNMENT = 0
            /\ Word(mem, HDRP(bp)) = Word(mem, FTRP(Cur, bp))
            /\ BlockSize(bp) % ALIGNMENT = 0
            /\ BlockSize(bp) >= 2 * DSIZE

\* ------------------------------------------------------------ C9
\* C9: after every public call no two blocks adjacent in address order are
\* both free.
C9_NoAdjacentFree ==
    Ready =>
        \A k \in DOMAIN Blocks(Cur).bps :
            k + 1 \in DOMAIN Blocks(Cur).bps =>
                ~(BlockAlloc(Blocks(Cur).bps[k]) = 0 /\ BlockAlloc(Blocks(Cur).bps[k + 1]) = 0)

\* ------------------------------------------------------------ C10
\* the nodes reached from the head of list i by following succ
RECURSIVE NodesFrom(_, _, _)
NodesFrom(s, bp, fuel) ==
    IF bp = NULL \/ fuel = 0 THEN <<>>
    ELSE <<bp>> \o NodesFrom(s, GET_SUCC(s, bp), fuel - 1)

ListNodes(i) == NodesFrom(Cur, GET(Cur, SegSlot(Cur, i)), WalkLimit(Cur))

Classes == 0 .. LIST_LIMIT - 1

\* number of places block bp takes in list i
Places(i, bp) == Cardinality({k \in DOMAIN ListNodes(i) : ListNodes(i)[k] = bp})

\* C10: after every public call, every free block is reached exactly once from
\* the head of seg_list[get_list_index(its size)] and from no other head, and
\* every block reached from a head is free and of a size of that class.
C10_ListsMatchFreeBlocks ==
    Ready =>
        /\ \A bp \in BlockSet :
               BlockAlloc(bp) = 0 =>
                   \A i \in Classes :
                       Places(i, bp) = IF i = get_list_index(BlockSize(bp)) THEN 1 ELSE 0
        /\ \A i \in Classes :
               \A k \in DOMAIN ListNodes(i) :
                   /\ ListNodes(i)[k] \in BlockSet
                   /\ BlockAlloc(ListNodes(i)[k]) = 0
                   /\ get_list_index(BlockSize(ListNodes(i)[k])) = i

\* a shrinking mm_realloc has returned on a block with room for a split
C7_Witness ==
    /\ Ready
    /\ last.op = "realloc" /\ last.path = "policy1" /\ last.ret = last.ptr
    /\ last.size > 0
    /\ adjust(last.size) + 2 * DSIZE <= BlockSize(last.ptr)

\* ------------------------------------------------------------ C11
\* the free lists are well-formed doubly linked lists
ListsWellLinked ==
    \A i \in Classes :
        /\ GET(Cur, SegSlot(Cur, i)) # NULL => GET_PRED(Cur, GET(Cur, SegSlot(Cur, i))) = NULL
        /\ \A k \in DOMAIN ListNodes(i) :
               /\ Readable(Cur, SUCC_PTR(ListNodes(i)[k]))
               /\ Readable(Cur, PRED_PTR(ListNodes(i)[k]))
               /\ GET_SUCC(Cur, ListNodes(i)[k]) # NULL =>
                      GET_PRED(Cur, GET_SUCC(Cur, ListNodes(i)[k])) = ListNodes(i)[k]
               /\ \A j \in DOMAIN ListNodes(i) : j # k => ListNodes(i)[j] # ListNodes(i)[k]
        /\ Len(ListNodes(i)) < WalkLimit(Cur)

\* C11: after every public call every free list is a well-formed doubly linked
\* list: the block at a head has pred = null, every edge a.succ = b has
\* b.pred = a, and following succ from a head reaches null without meeting a
\* block twice.
C11_ListsWellLinked ==
    [][ (status' = "ready" /\ (calls' = calls + 1 \/ status = "fresh")) => ListsWellLinked' ]_vars

\* ------------------------------------------------------------ C12
\* a public call (mm_init included) has just returned
AfterCall == status' = "ready" /\ (calls' = calls + 1 \/ status = "fresh")

\* the sum of the sizes of the blocks the heap walk visits from bp on
RECURSIVE SumSizes(_, _, _)
SumSizes(s, bp, fuel) ==
    IF fuel = 0 \/ ~Readable(s, HDRP(bp)) \/ GET_SIZE(s, HDRP(bp)) = 0 THEN 0
    ELSE GET_SIZE(s, HDRP(bp))
         + Bind(NEXT_BLKP(s, bp), LAMBDA next_bp : SumSizes(s, next_bp, fuel - 1))

\* the table, the pad/prologue/epilogue words and the blocks fill [lo, hi), and
\* the word at hi - 4 is the epilogue header
Tiled ==
    /\ (LIST_LIMIT * PSIZE) + (4 * WSIZE) + SumSizes(Cur, FirstBlock, WalkLimit(Cur)) = brk - mem_heap_lo
    /\ Word(mem, brk - WSIZE) = <<PACK(0, 1)>>

\* C12: after every public call the list table (20 pointers), the 16 bytes of
\* pad, prologue and epilogue and the blocks tile the heap exactly, and the
\* word at hi - 4 is the epilogue header (size 0, allocated).
C12_BlocksTileHeap ==
    [][ AfterCall => Tiled' ]_vars

\* ------------------------------------------------------------ C13
\* request sizes of the runs about fitting: adjusted sizes 16, 112, 128, 4104,
\* and 0 for SIZE_MAX - 7
FitSizes == {1, 100, 120, 4096, -8}

\* the heap after mm_init(); a = mm_malloc(120); b = mm_malloc(1);
\* c = mm_malloc(112); d = mm_malloc(1): blocks of 128, 16, 120 and 16 bytes
\* and a free remainder
WarmFit ==
    Bind(mm_init(Machine(EmptyMem, mem_heap_lo, NULL)), LAMBDA i :
    Bind(mm_malloc(i.s, 120), LAMBDA a :
    Bind(mm_malloc(a.s, 1), LAMBDA b :
    Bind(mm_malloc(b.s, 112), LAMBDA c :
    Bind(mm_malloc(c.s, 1), LAMBDA d :
    [s |-> d.s, live |-> <<a.ret, b.ret, c.ret, d.ret>>])))))

InitFit ==
    /\ mem = WarmFit.s.mem
    /\ brk = WarmFit.s.brk
    /\ seg_list = WarmFit.s.seg_list
    /\ status = "ready"
    /\ live = WarmFit.live
    /\ last = NoCall
    /\ calls = 0
    /\ CacheOff

NextFit ==
    \/ \E size \in FitSizes : Malloc(size, MaxCalls + 1)
    \/ \E k \in 1 .. Len(WarmFit.live) : Free(k, MaxCalls + 1)

\* the runs of a client that holds four blocks, two of them of one class, and
\* goes on to free and allocate
SpecFit == InitFit /\ [][NextFit]_vars

\* the heap satisfies the invariants of blocks, lists and tiling
Consistent ==
    /\ Ready
    /\ C8_BlocksWellFormed /\ C9_NoAdjacentFree /\ C10_ListsMatchFreeBlocks
    /\ ListsWellLinked /\ Tiled

\* the free blocks of at least asize bytes
Fitting(asize) == {bp \in BlockSet : BlockAlloc(bp) = 0 /\ ULe(asize, BlockSize(bp))}

\* C13: in a consistent heap, mm_malloc finds no fit (and extends the heap)
\* exactly when no free block has at least asize bytes; otherwise what find_fit
\* returns is a free block of the lowest class holding a block that fits, of
\* the least size among the blocks of that class that fit.
C13_FindFitBestInClass ==
    [][ (calls' = calls + 1 /\ last'.op = "malloc" /\ last'.size # 0 /\ Consistent)
        => IF Fitting(adjust(last'.size)) = {}
           THEN last'.path \in {"extend", "refused"}
           ELSE /\ status' = "ready"
                /\ last'.path = "fit"
                /\ last'.ret \in Fitting(adjust(last'.size))
                /\ \A b \in Fitting(adjust(last'.size)) :
                       /\ get_list_index(BlockSize(last'.ret)) <= get_list_index(BlockSize(b))
                       /\ get_list_index(BlockSize(b)) = get_list_index(BlockSize(last'.ret))
                              => BlockSize(last'.ret) <= BlockSize(b) ]_vars

\* mm_malloc has returned the second block of a list, a closer fit than the
\* first, while a higher class held a block that fits too
C13_Witness ==
    /\ Ready
    /\ last.op = "malloc" /\ last.path = "fit" /\ last.size = 100
    /\ BlockSize(last.ret) = 120
    /\ \E i \in Classes :
           /\ Len(ListNodes(i)) >= 1
           /\ BlockSize(ListNodes(i)[1]) = 128
    /\ \E bp \in BlockSet : BlockAlloc(bp) = 0 /\ BlockSize(bp) > 128

\* ------------------------------------------------------------ C14
\* size and allocated bit of the block at p after the step
BlockSizeAfter(p) == GET_SIZE(Cur', HDRP(p))
BlockAllocAfter(p) == GET_ALLOC(Cur', HDRP(p))

\* the nodes of list i after the step
ListNodesAfter(i) ==
    NodesFrom(Cur', GET(Cur', SegSlot(Cur', i)),
              WalkLimit(Cur'))

\* block p is a node of some free list after the step
ListedAfter(p) ==
    \E i \in Classes : \E k \in DOMAIN ListNodesAfter(i) : ListNodesAfter(i)[k] = p

\* C14: place takes the chosen free block of size c out of its list and splits
\* it exactly when c - asize >= 16: then the allocated block has size asize and
\* the free remainder of c - asize bytes at bp + asize is in the list of its
\* class; otherwise the whole block is allocated with size c.  A block
\* mm_malloc returns has size asize or asize + 8.
C14_PlaceSplitsFrom16 ==
    [][ (Returned /\ last'.op = "malloc" /\ last'.ret # NULL)
        => /\ BlockAllocAfter(last'.ret) = 1
           /\ ~ListedAfter(last'.ret)
           /\ BlockSizeAfter(last'.ret) \in {adjust(last'.size), adjust(last'.size) + DSIZE}
           /\ last'.path = "fit" =>
                  IF ULe(2 * DSIZE, BlockSize(last'.ret) - adjust(last'.size))
                  THEN /\ BlockSizeAfter(last'.ret) = adjust(last'.size)
                       /\ BlockAllocAfter(last'.ret + adjust(last'.size)) = 0
                       /\ BlockSizeAfter(last'.ret + adjust(last'.size))
                              = BlockSize(last'.ret) - adjust(last'.size)
                       /\ \E k \in DOMAIN ListNodesAfter(get_list_index(
                                   BlockSize(last'.ret) - adjust(last'.size))) :
                              ListNodesAfter(get_list_index(
                                   BlockSize(last'.ret) - adjust(last'.size)))[k]
                                  = last'.ret + adjust(last'.size)
                  ELSE /\ BlockSizeAfter(last'.ret) = BlockSize(last'.ret)
                       /\ Len(Blocks(Cur').bps) = Len(Blocks(Cur).bps) ]_vars

\* ------------------------------------------------------------ C15
\* the free block right before / right after the block at p in address order,
\* or NULL when there is none or it is allocated (prologue and epilogue are
\* not blocks of the walk)
FreeBefore(p) ==
    LET ks == {k \in DOMAIN Blocks(Cur).bps : k > 1 /\ Blocks(Cur).bps[k] = p}
    IN  IF ks = {} THEN NULL
        ELSE LET q == Blocks(Cur).bps[(CHOOSE k \in ks : TRUE) - 1]
             IN  IF BlockAlloc(q) = 0 THEN q ELSE NULL

FreeAfter(p) ==
    LET ks == {k \in DOMAIN Blocks(Cur).bps : k < Len(Blocks(Cur).bps) /\ Blocks(Cur).bps[k] = p}
    IN  IF ks = {} THEN NULL
        ELSE LET q == Blocks(Cur).bps[(CHOOSE k \in ks : TRUE) + 1]
             IN  IF BlockAlloc(q) = 0 THEN q ELSE NULL

\* where the block freed at p starts after merging, and its size
MergedAt(p) == IF FreeBefore(p) # NULL THEN FreeBefore(p) ELSE p
MergedSize(p) ==
    BlockSize(p) + (IF FreeBefore(p) # NULL THEN BlockSize(FreeBefore(p)) ELSE 0)
                 + (IF FreeAfter(p) # NULL THEN BlockSize(FreeAfter(p)) ELSE 0)

\* C15: after mm_free(p), p held by the client, one free block covers p's
\* former block, the block before it if that was free and the block after it
\* if that was free; it is the head of the list of its class, and the blocks it
\* absorbed are in no list.
C15_FreeMergesNeighbours ==
    [][ (Returned /\ last'.op = "free" /\ last'.ptr # NULL)
        => /\ last'.ptr \in BlockSet
           /\ BlockAllocAfter(MergedAt(last'.ptr)) = 0
           /\ BlockSizeAfter(MergedAt(last'.ptr)) = MergedSize(last'.ptr)
           /\ GET(Cur', SegSlot(Cur', get_list_index(MergedSize(last'.ptr))))
                  = MergedAt(last'.ptr)
           /\ \A q \in {last'.ptr, FreeAfter(last'.ptr)} \ {NULL, MergedAt(last'.ptr)} :
                  ~ListedAfter(q)
           /\ Len(Blocks(Cur').bps)
                  = Len(Blocks(Cur).bps) - Cardinality({FreeBefore(last'.ptr), FreeAfter(last'.ptr)} \ {NULL}) ]_vars

\* ------------------------------------------------------------ C16
\* number of free blocks of the heap walk, before and after the step
FreeBlocks == Cardinality({bp \in BlockSet : BlockAlloc(bp) = 0})
FreeBlocksAfter ==
    Cardinality({k \in DOMAIN Blocks(Cur').bps :
                    BlockAllocAfter(Blocks(Cur').bps[k]) = 0})

\* the step is mm_realloc(p, n), p held by the client, with an adjusted size
\* that exceeds the size of p's block
ReallocGrows ==
    /\ calls' = calls + 1
    /\ last'.op = "realloc" /\ last'.ptr # NULL /\ last'.size # 0
    /\ ULt(BlockSize(last'.ptr), adjust(last'.size))

\* C16: when the block after p is free and old_size + next.size >= new_size,
\* mm_realloc(p, n) returns p, p's block has exactly old_size + next.size bytes
\* (nothing is split off: one free block fewer), the former next block is in no
\* free list, and hi does not change.
C16_AbsorbsNextWhole ==
    [][ (ReallocGrows
          /\ Readable(Cur, HDRP(NEXT_BLKP(Cur, last'.ptr)))
          /\ BlockAlloc(NEXT_BLKP(Cur, last'.ptr)) = 0
          /\ ULe(adjust(last'.size), BlockSize(last'.ptr) + BlockSize(NEXT_BLKP(Cur, last'.ptr))))
        => /\ status' = "ready"
           /\ last'.ret = last'.ptr
           /\ BlockAllocAfter(last'.ptr) = 1
           /\ BlockSizeAfter(last'.ptr)
                  = BlockSize(last'.ptr) + BlockSize(NEXT_BLKP(Cur, last'.ptr))
           /\ FreeBlocksAfter = FreeBlocks - 1
           /\ ~ListedAfter(NEXT_BLKP(Cur, last'.ptr))
           /\ brk' = brk ]_vars

\* ------------------------------------------------------------ C17
\* the heap after mm_init(); a = mm_malloc(1); b = mm_malloc(1);
\* b = mm_realloc(b, 24): policy 2 has given b the whole free remainder, so b's
\* block is the last one before the epilogue
WarmTail ==
    Bind(mm_init(Machine(EmptyMem, mem_heap_lo, NULL)), LAMBDA i :
    Bind(mm_malloc(i.s, 1), LAMBDA a :
    Bind(mm_malloc(a.s, 1), LAMBDA b :
    Bind(mm_realloc(b.s, b.ret, 24), LAMBDA c :
    [s |-> c.s, live |-> <<a.ret, c.ret>>]))))

InitTail ==
    /\ mem = WarmTail.s.mem
    /\ brk = WarmTail.s.brk
    /\ seg_list = WarmTail.s.seg_list
    /\ status = "ready"
    /\ live = WarmTail.live
    /\ last = NoCall
    /\ calls = 0
    /\ CacheOff

NextTail == ClientStep(ReqSizes, MaxCalls - 1)

\* the runs of a client that holds two blocks, the second one the last of the heap
SpecTail == InitTail /\ [][NextTail]_vars

\* C17: when p's block is the last one before the epilogue, new_size exceeds
\* old_size and the heap provider grants the extension, mm_realloc(p, n) returns
\* p, hi has advanced by exactly new_size - old_size, the block has exactly
\* new_size bytes, the word at hi - 4 is a new epilogue header right after the
\* block, and no free list has changed.
C17_ExtendsLastBlock ==
    [][ (ReallocGrows
          /\ NEXT_BLKP(Cur, last'.ptr) = brk
          /\ Word(mem, brk - WSIZE) = <<PACK(0, 1)>>
          /\ ~last'.refused)
        => /\ status' = "ready"
           /\ last'.ret = last'.ptr
           /\ brk' = brk + (adjust(last'.size) - BlockSize(last'.ptr))
           /\ BlockAllocAfter(last'.ptr) = 1
           /\ BlockSizeAfter(last'.ptr) = adjust(last'.size)
           /\ Word(mem', FTRP(Cur', last'.ptr)) = Word(mem', HDRP(last'.ptr))
           /\ last'.ptr + adjust(last'.size) = brk'
           /\ Word(mem', brk' - WSIZE) = <<PACK(0, 1)>>
           /\ \A i \in Classes : ListNodesAfter(i) = ListNodes(i) ]_vars

\* policy 3 has grown the last block, by twice the least block size, while a
\* block that had never been free before was in a free list
C17_Witness ==
    /\ Ready
    /\ last.size > 0
    /\ \A i \in DOMAIN last.before.blocks : last.before.blocks[i][2] >= 2 * DSIZE
    /\ last.op = "realloc" /\ last.path = "policy3" /\ last.ret = last.ptr /\ ~last.refused
    /\ BlockAlloc(last.ptr) = 1
    /\ last.ptr + BlockSize(last.ptr) = brk
    /\ \E i \in Classes : Len(ListNodes(i)) >= 1

\* ------------------------------------------------------------ C19
\* C19: in every state reached from a successful mm_init by mm_malloc, mm_free
\* and mm_realloc calls on pointers the client holds, mm_check runs to
\* completion and returns 1.
C19_CheckPasses ==
    Ready => mm_check(Cur) = [ret |-> 1, diag |-> "ok"]

\* ------------------------------------------------------------ C18
\* the heap with the allocated bit set in the header of the block at bp, and in
\* its header and its footer
FlipHeader(s, bp) == [s EXCEPT !.mem[HDRP(bp)] = @ + 1]
FlipBoth(s, bp) == [s EXCEPT !.mem[HDRP(bp)] = @ + 1, !.mem[FTRP(s, bp)] = @ + 1]

\* the heap is one mm_check accepts, and the block at bp is a free block of it
FreeInSoundHeap(bp) ==
    /\ Ready
    /\ bp \in BlockSet /\ BlockAlloc(bp) = 0
    /\ mm_check(Cur).ret = 1

\* C18 as claimed: with the allocated bit of a free block of a consistent heap
\* flipped to 1, in the header only or in header and footer, mm_check aborts
\* with 'Allocated block in free list'.
C18_FlipCaughtByListWalk ==
    \A bp \in BlockSet :
        FreeInSoundHeap(bp) =>
            /\ mm_check(FlipHeader(Cur, bp)) = Abort("Allocated block in free list")
            /\ mm_check(FlipBoth(Cur, bp)) = Abort("Allocated block in free list")

\* C18 amended: with the bit flipped in header and footer mm_check aborts with
\* 'Allocated block in free list', raised by the free-list walk; with the bit
\* flipped in the header only it aborts earlier, in the heap walk, with
\* 'Header does not match footer'.
C18_FlipCaughtByEitherWalk ==
    \A bp \in BlockSet :
        FreeInSoundHeap(bp) =>
            /\ mm_check(FlipHeader(Cur, bp)) = Abort("Header does not match footer")
            /\ mm_check(FlipBoth(Cur, bp)) = Abort("Allocated block in free list")

\* a heap mm_check accepts with two free blocks and an allocated block between them
C18_Witness ==
    /\ Ready
    /\ mm_check(Cur).ret = 1
    /\ Cardinality({bp \in BlockSet : BlockAlloc(bp) = 0}) >= 2
    /\ \E bp \in BlockSet : BlockAlloc(bp) = 1

\* ------------------------------------------------------------ the cache simulator's run
\* main, lines 104 to 136: the options are read, all three must be non-zero,
\* and the cache is allocated
AllocateCache(shape) ==
    /\ csim.pc = "options"
    /\ shape.s # 0 /\ shape.E # 0 /\ shape.b # 0
    /\ csim' = allocateCache([csim EXCEPT !.s = shape.s, !.E = shape.E, !.b = shape.b,
                                          !.pc = "trace"])
    /\ UNCHANGED <<mem, brk, seg_list, status, live, last, calls, trace>>

\* one call of accessCache from the trace loop of main
AccessCache(address) ==
    /\ csim.pc = "trace"
    /\ Len(trace) < MaxAccess
    /\ csim' = accessCache(csim, address)
    /\ trace' = Append(trace, address)
    /\ UNCHANGED <<mem, brk, seg_list, status, live, last, calls>>

\* main, lines 142 and 143: the trace is at its end and the cache is released
FreeCache ==
    /\ csim.pc = "trace"
    /\ csim' = [freeCache(csim) EXCEPT !.pc = "done"]
    /\ UNCHANGED <<mem, brk, seg_list, status, live, last, calls, trace>>

NextCache ==
    \/ \E shape \in CacheShapes : AllocateCache(shape)
    \/ \E address \in CacheAddrs : AccessCache(address)
    \/ FreeCache

SpecCache == Init /\ [][NextCache]_vars

\* ------------------------------------------------------------ C20
\* the lines of a set
LineIds == 0 .. csim.E - 1

\* position in the trace of the last access to tag t of set si (0: never)
RECURSIVE LastUse(_, _, _)
LastUse(si, t, k) ==
    IF k = 0 THEN 0
    ELSE IF SetIndex(csim, trace[k]) = si /\ Tag(csim, trace[k]) = t THEN k
    ELSE LastUse(si, t, k - 1)

\* no set holds two valid lines with the same tag
NoTwinLines(c) ==
    \A si \in DOMAIN c.sets : \A j, k \in DOMAIN c.sets[si] :
        (j # k /\ c.sets[si][j].valid # 0 /\ c.sets[si][k].valid # 0)
            => c.sets[si][j].tag # c.sets[si][k].tag

\* what one call of accessCache with the given address did to the cache
AccessRight(address) ==
    LET si == SetIndex(csim, address)
        tg == Tag(csim, address)
        old == csim.sets[si]
        new == csim'.sets[si]
        held == \E j \in LineIds : old[j].valid # 0 /\ old[j].tag = tg
        full == \A j \in LineIds : old[j].valid # 0
    IN  /\ DOMAIN csim.sets = 0 .. Pow2(csim.s) - 1
        /\ \/ csim'.hit_count = csim.hit_count + 1 /\ csim'.miss_count = csim.miss_count
           \/ csim'.hit_count = csim.hit_count /\ csim'.miss_count = csim.miss_count + 1
        /\ (csim'.hit_count = csim.hit_count + 1) <=> held
        /\ csim'.eviction_count = csim.eviction_count + (IF ~held /\ full THEN 1 ELSE 0)
        /\ \A other \in DOMAIN csim.sets \ {si} : csim'.sets[other] = csim.sets[other]
        /\ held => \A j \in LineIds : new[j].valid = old[j].valid /\ new[j].tag = old[j].tag
        /\ (~held /\ full) =>
               \E j \in LineIds :
                   /\ \A k \in LineIds : ~ULt(old[k].last_access, old[j].last_access)
                   /\ \A k \in LineIds :
                          LastUse(si, old[j].tag, Len(trace)) <= LastUse(si, old[k].tag, Len(trace))
                   /\ new[j].valid # 0 /\ new[j].tag = tg
                   /\ \A k \in LineIds \ {j} : new[k] = old[k]
        /\ (~held /\ ~full) =>
               \E j \in LineIds :
                   /\ old[j].valid = 0
                   /\ new[j].valid # 0 /\ new[j].tag = tg
                   /\ \A k \in LineIds \ {j} : new[k] = old[k]
        /\ NoTwinLines(csim')

\* C20: every call of accessCache counts exactly one hit or one miss, a hit
\* exactly when a valid line of the addressed set holds the tag; it counts an
\* eviction exactly on a miss in a set whose lines are all valid, and then it
\* replaces the valid line of least last_access, which is the one used longest
\* ago; a miss in a set with an invalid line fills an invalid line and leaves
\* the valid ones; no set ever holds two valid lines with the same tag.
C20_AccessCountsAndEvictsLRU ==
    [][ (Len(trace') = Len(trace) + 1) => AccessRight(trace'[Len(trace')]) ]_vars

\* a two-line set where a hit refreshed line 0 and the next miss evicted line 1
C20_Witness ==
    /\ csim.E = 2
    /\ csim.hit_count >= 1
    /\ csim.eviction_count >= 1
    /\ \E si \in DOMAIN csim.sets :
           /\ csim.sets[si][0].valid # 0 /\ csim.sets[si][1].valid # 0
           /\ csim.sets[si][1].last_access = csim.global_timer
           /\ csim.sets[si][0].last_access = csim.global_timer - 1
           /\ csim.sets[si][0].last_access > 2

====
